---- MODULE Spec2Model ----
(***************************************************************************)
(* A model of repolist (src/src/repolist/__main__.py): the filters, the    *)
(* Matcher, the three formatters and the fetch -> match -> show loop of    *)
(* main().                                                                 *)
(*                                                                         *)
(* Python values are represented as follows.                               *)
(*   str         a sequence of one-character strings, <<"G","o">>          *)
(*   Optional    None is << >>, a present value v is << v >>               *)
(*   Repo        a function from the keys it carries to their values; a    *)
(*               key the record lacks is outside its DOMAIN                *)
(*   bool / KeyError outcome of a filter: "True", "False" or "KeyError"    *)
(*   stdout      a sequence of tokens (see Lit, json_dumps)                *)
(***************************************************************************)
EXTENDS Integers, Sequences, FiniteSets, TLC

VARIABLES
    \* main()'s parameters, as click hands them over
    owner, formatter, archive_filter, fork_filter, language, topic,
    no_topics, visibility, affiliation,
    \* main()'s locals and the objects it drives
    pc,         \* where main() is: "start", "loop", "done", "usage_error",
                \* "no_token", "faulted" (an exception left the loop)
    matcher,    \* Matcher.filters
    supplied,   \* the argument each filter of matcher was built from
    client,     \* "none", "open" or "closed"
    cur,        \* the stream chain.from_iterable is reading (1-based)
    fetched,    \* the streams whose endpoint has been requested at least once
    yielded,    \* every record the fetcher has yielded, with its stream
    shown,      \* every record passed to fmt.show, in order
    out,        \* standard output
    first,      \* ArrayFormatter.first
    fmt,        \* the formatter's lifecycle: "none", "entered", "exited", "exited_exc"
    \* a direct use of the Matcher class
    repo,       \* the record the Matcher is called with
    verdict     \* what the call gave: "none" before it

vars == <<owner, formatter, archive_filter, fork_filter, language, topic,
          no_topics, visibility, affiliation, pc, matcher, supplied, client,
          cur, fetched, yielded, shown, out, first, fmt, repo, verdict>>

flags == <<owner, formatter, archive_filter, fork_filter, language, topic,
           no_topics, visibility, affiliation>>

----------------------------------------------------------------------------
(* Bounds *)

\* records the fetcher yields in one run
MaxYield == 2
\* OWNER arguments on the command line
MaxOwners == 2
\* filters added to a Matcher used directly
MaxFilters == 2

----------------------------------------------------------------------------
(* Python values *)

None == << >>
Some(v) == << v >>

UpperCase == <<"A", "B", "G", "O">>
LowerCase == <<"a", "b", "g", "o">>

\* str.lower() on one character
lower_char(c) ==
    IF \E i \in 1..Len(UpperCase) : UpperCase[i] = c
    THEN LowerCase[CHOOSE i \in 1..Len(UpperCase) : UpperCase[i] = c]
    ELSE c

\* str.lower()
lower(s) == [i \in 1..Len(s) |-> lower_char(s[i])]

\* bool(...) as an outcome
Bool(b) == IF b THEN "True" ELSE "False"

\* r without key k
Without(r, k) == [x \in (DOMAIN r) \ {k} |-> r[x]]

\* x in xs, for a list
In(x, xs) == \E i \in 1..Len(xs) : xs[i] = x

----------------------------------------------------------------------------
(* Filters: a closure is the record of what it captured *)

null_filter == [kind |-> "null"]

field_filter(field, value) == [kind |-> "field", field |-> field, value |-> value]

language_filter(lang) == [kind |-> "language", language |-> lower(lang)]

topic_filter(t) == [kind |-> "topic", topic |-> lower(t)]

\* field_filter's filterfunc
field_filterfunc(field, value, r) ==
    IF field \notin DOMAIN r THEN "KeyError"
    ELSE Bool(r[field] = value)

\* a language filter that does not lower the record's language
language_filterfunc_exact(lang, r) ==
    IF "language" \notin DOMAIN r THEN "KeyError"
    ELSE IF r["language"] # None
         THEN Bool(r["language"][1] = lang)
         ELSE "False"

\* language_filter's filterfunc
language_filterfunc(lang, r) ==
    IF "language" \notin DOMAIN r THEN "KeyError"
    ELSE IF r["language"] # None
         THEN Bool(lower(r["language"][1]) = lang)
         ELSE "False"

\* topic_filter's filterfunc
topic_filterfunc(t, r) ==
    IF "topics" \notin DOMAIN r THEN "KeyError"
    ELSE Bool(In(t, r["topics"]))

\* rf(r)
Call(rf, r) ==
    CASE rf.kind = "null" -> "True"
      [] rf.kind = "field" -> field_filterfunc(rf.field, rf.value, r)
      [] rf.kind = "language" -> language_filterfunc(rf.language, r)
      [] rf.kind = "topic" -> topic_filterfunc(rf.topic, r)

RECURSIVE all_from_swallow(_, _, _)
\* an all() in which a filter that raises counts as one that gives False
all_from_swallow(filters, r, i) ==
    IF i > Len(filters) THEN "True"
    ELSE IF Call(filters[i], r) = "True"
         THEN all_from_swallow(filters, r, i + 1)
         ELSE "False"

RECURSIVE all_from(_, _, _)
\* all(rf(r) for rf in filters[i:]): stops at the first filter that does not
\* give True; an exception of a filter leaves all() as it is
all_from(filters, r, i) ==
    IF i > Len(filters) THEN "True"
    ELSE LET v == Call(filters[i], r)
         IN IF v = "True" THEN all_from(filters, r, i + 1) ELSE v

\* a Matcher that leaves its last filter out
MatcherCall_short(filters, r) ==
    all_from(SubSeq(filters, 1, Len(filters) - 1), r, 1)

\* Matcher.__call__
MatcherCall(filters, r) == all_from(filters, r, 1)

----------------------------------------------------------------------------
(* Standard output and the formatters *)

\* a printed string
Lit(s) == [kind |-> "lit", text |-> s, repo |-> None, indent |-> 0, margin |-> 0]

\* json.dumps(r, indent=ind): the record pretty-printed, ind spaces per level
json_dumps(r, ind) ==
    [kind |-> "json", text |-> "", repo |-> Some(r), indent |-> ind, margin |-> 0]

\* textwrap.indent(text, " " * n): n more spaces before every line
indent(tok, n) == [tok EXCEPT !.margin = @ + n]

\* print(*toks, end=end) after o was printed
print(o, toks, end) == o \o toks \o (IF end = "" THEN << >> ELSE << Lit(end) >>)

\* FullNameFormatter.show
FullNameFormatter_show(o, f, r) ==
    IF "full_name" \notin DOMAIN r
    THEN [out |-> o, first |-> f, raised |-> TRUE]
    ELSE [out |-> print(o, << Lit(r["full_name"]) >>, "\n"), first |-> f,
          raised |-> FALSE]

\* JsonFormatter.show
JsonFormatter_show(o, f, r) ==
    [out |-> print(o, << json_dumps(r, 4) >>, "\n"), first |-> f, raised |-> FALSE]

\* ArrayFormatter.__enter__
ArrayFormatter_enter(o) == print(o, << Lit("[") >>, "")

\* an __exit__ that prints the closing bracket whatever happened
ArrayFormatter_exit_always(o, f, exc) ==
    LET o1 == IF ~f THEN print(o, << >>, "\n") ELSE o
    IN print(o1, << Lit("]") >>, "\n")

\* ArrayFormatter.__exit__; exc is whether an exception is propagating
ArrayFormatter_exit(o, f, exc) ==
    IF ~exc
    THEN LET o1 == IF ~f THEN print(o, << >>, "\n") ELSE o
         IN print(o1, << Lit("]") >>, "\n")
    ELSE o

\* a show that never clears first
ArrayFormatter_show_keepfirst(o, f, r) ==
    LET o1 == IF f THEN print(o, << >>, "\n") ELSE print(o, << Lit(",") >>, "\n")
    IN [out |-> print(o1, << indent(json_dumps(r, 4), 4) >>, ""), first |-> f,
        raised |-> FALSE]

\* ArrayFormatter.show
ArrayFormatter_show(o, f, r) ==
    LET o1 == IF f THEN print(o, << >>, "\n") ELSE print(o, << Lit(",") >>, "\n")
    IN [out |-> print(o1, << indent(json_dumps(r, 4), 4) >>, ""), first |-> FALSE,
        raised |-> FALSE]

\* main: formatter is None -> FullNameFormatter
Chosen(fm) == IF fm = "None" THEN "FullNameFormatter" ELSE fm

\* formatter().__enter__()
Enter(fm, o) == IF Chosen(fm) = "ArrayFormatter" THEN ArrayFormatter_enter(o) ELSE o

\* fmt.__exit__(...)
Exit(fm, o, f, exc) ==
    IF Chosen(fm) = "ArrayFormatter" THEN ArrayFormatter_exit(o, f, exc) ELSE o

\* fmt.show(r)
Show(fm, o, f, r) ==
    CASE Chosen(fm) = "FullNameFormatter" -> FullNameFormatter_show(o, f, r)
      [] Chosen(fm) = "JsonFormatter" -> JsonFormatter_show(o, f, r)
      [] Chosen(fm) = "ArrayFormatter" -> ArrayFormatter_show(o, f, r)

----------------------------------------------------------------------------
(* main(): the Matcher it builds *)

\* the flag_value of -A / --archived-only / -F / --forks-only
FlagFilter(field, flag) ==
    IF flag = "include" THEN null_filter ELSE field_filter(field, TRUE)

\* a main that adds no filter when the flag is not given
DefaultOr_none(field, flag) ==
    IF flag # "None" THEN FlagFilter(field, flag) ELSE null_filter

\* the filter main adds for archive_filter / fork_filter
DefaultOr(field, flag) ==
    IF flag # "None" THEN FlagFilter(field, flag) ELSE field_filter(field, FALSE)

\* the filters main adds, in the order it adds them
MainFilters(af, ff, lang, tp, nt) ==
    << DefaultOr("archived", af), DefaultOr("fork", ff) >>
    \o (IF lang # None THEN << language_filter(lang[1]) >> ELSE << >>)
    \o [i \in 1..Len(tp) |-> topic_filter(tp[i])]
    \o (IF nt THEN << field_filter("topics", << >>) >> ELSE << >>)

\* the argument each of those filters was built from
MainSupplied(lang, tp, nt) ==
    << None, None >>
    \o (IF lang # None THEN << lang >> ELSE << >>)
    \o [i \in 1..Len(tp) |-> Some(tp[i])]
    \o (IF nt THEN << None >> ELSE << >>)

\* a main without the --affiliation check
UsageConflict_visibility == visibility # None /\ owner # << >>

\* main's two usage checks
UsageConflict ==
    \/ visibility # None /\ owner # << >>
    \/ affiliation # None /\ owner # << >>

----------------------------------------------------------------------------
(* main(): the fetcher *)

per_page == 100

\* the streams chain.from_iterable reads, one per OWNER, or the user's own
NStreams == IF owner # << >> THEN Len(owner) ELSE 1

\* the request Client.get_repos_for_owner / Client.get_my_repos paginates
Request(i) ==
    IF owner # << >>
    THEN [stream |-> i, path |-> << "/users/", owner[i], "/repos" >>,
          visibility |-> None, affiliation |-> None, per_page |-> per_page]
    ELSE [stream |-> i, path |-> << "/user/repos" >>,
          visibility |-> visibility, affiliation |-> affiliation,
          per_page |-> per_page]

----------------------------------------------------------------------------
(* Inputs *)

Go == << "G", "o" >>

\* a Repo Record carrying all five keys
Repo(a, f, l, t) ==
    [full_name |-> "o/r", archived |-> a, fork |-> f, language |-> l, topics |-> t]

\* the records the remote API returns in a run of main
WellFormed ==
    { Repo(a, f, l, t) : a \in BOOLEAN, f \in BOOLEAN,
                         l \in {None, Some(Go)}, t \in {<< >>, << <<"a">> >>} }

\* records lacking a key
IllFormed ==
    { Without(Repo(a, FALSE, Some(Go), << >>), "language") : a \in BOOLEAN }
    \cup { Without(Repo(FALSE, FALSE, None, << <<"a">> >>), "archived") }

Repos == WellFormed \cup IllFormed

\* the OWNER arguments: alice, bob, alice, ...
OwnerArgs(n) == [i \in 1..n |-> IF i % 2 = 1 THEN "alice" ELSE "bob"]

\* the command lines: the default exclusions with every combination of -L, -T
\* and --no-topics; every combination of the archived and fork options; and
\* every combination of formatter, owners, visibility and affiliation
FilterOptions ==
    [archive_filter : {"None"}, fork_filter : {"None"},
     language : {None, Some(<< "g", "o" >>)},
     topic : {<< >>, << <<"A">> >>},
     no_topics : BOOLEAN,
     formatter : {"None"}, owner : {<< >>},
     visibility : {None}, affiliation : {None}]

ExclusionOptions ==
    [archive_filter : {"None", "include", "only"},
     fork_filter : {"None", "include", "only"},
     language : {None}, topic : {<< >>}, no_topics : {FALSE},
     formatter : {"None"}, owner : {<< >>},
     visibility : {None}, affiliation : {None}]

OutputOptions ==
    [archive_filter : {"None"}, fork_filter : {"None"}, language : {None},
     topic : {<< >>}, no_topics : {FALSE},
     formatter : {"None", "JsonFormatter", "ArrayFormatter"},
     owner : {OwnerArgs(n) : n \in 0..MaxOwners},
     visibility : {None, Some("public")},
     affiliation : {None, Some("owner")}]

CommandLines == FilterOptions \cup ExclusionOptions \cup OutputOptions

----------------------------------------------------------------------------
(* main() *)

Init ==
    /\ \E c \in CommandLines :
        /\ owner = c.owner
        /\ formatter = c.formatter
        /\ archive_filter = c.archive_filter
        /\ fork_filter = c.fork_filter
        /\ language = c.language
        /\ topic = c.topic
        /\ no_topics = c.no_topics
        /\ visibility = c.visibility
        /\ affiliation = c.affiliation
    /\ pc = "start"
    /\ matcher = << >>
    /\ supplied = << >>
    /\ client = "none"
    /\ cur = 0
    /\ fetched = {}
    /\ yielded = << >>
    /\ shown = << >>
    /\ out = << >>
    /\ first = TRUE
    /\ fmt = "none"
    /\ repo = None
    /\ verdict = "none"

\* lines 286-311 when a usage check fails: the Matcher is built, then
\* click.UsageError is raised
UsageFault ==
    /\ pc = "start"
    /\ UsageConflict
    /\ matcher' = MainFilters(archive_filter, fork_filter, language, topic, no_topics)
    /\ supplied' = MainSupplied(language, topic, no_topics)
    /\ pc' = "usage_error"
    /\ UNCHANGED <<flags, client, cur, fetched, yielded, shown, out, first, fmt,
                   repo, verdict>>

\* lines 286-321 otherwise: the Matcher is built, the client and the
\* formatter are entered, and the loop begins
Begin ==
    /\ pc = "start"
    /\ ~UsageConflict
    /\ matcher' = MainFilters(archive_filter, fork_filter, language, topic, no_topics)
    /\ supplied' = MainSupplied(language, topic, no_topics)
    /\ client' = "open"
    /\ cur' = 1
    /\ fmt' = "entered"
    /\ out' = Enter(formatter, out)
    /\ pc' = "loop"
    /\ UNCHANGED <<flags, fetched, yielded, shown, first, repo, verdict>>

\* lines 312-313 when get_ghtoken() finds no token: the exception leaves main
\* before the client and the formatter exist
TokenFault ==
    /\ pc = "start"
    /\ ~UsageConflict
    /\ matcher' = MainFilters(archive_filter, fork_filter, language, topic, no_topics)
    /\ supplied' = MainSupplied(language, topic, no_topics)
    /\ pc' = "no_token"
    /\ UNCHANGED <<flags, client, cur, fetched, yielded, shown, out, first, fmt,
                   repo, verdict>>

\* an exception leaves the loop: fmt.__exit__ and the client's __exit__ run
Raise(o, f) ==
    /\ out' = Exit(formatter, o, f, TRUE)
    /\ first' = f
    /\ fmt' = "exited_exc"
    /\ client' = "closed"
    /\ pc' = "faulted"

\* lines 322-324 when the iterator yields r and matcher(r) gives v
PullWith(r, v) ==
    /\ pc = "loop"
    /\ Len(yielded) < MaxYield
    /\ fetched' = fetched \cup {Request(cur)}
    /\ yielded' = Append(yielded, [stream |-> cur, repo |-> r])
    /\ repo' = Some(r)
    /\ verdict' = v
    /\ CASE v = "True" ->
              LET s == Show(formatter, out, first, r)
              IN /\ shown' = Append(shown, r)
                 /\ IF s.raised
                    THEN Raise(s.out, s.first)
                    ELSE /\ out' = s.out
                         /\ first' = s.first
                         /\ UNCHANGED <<fmt, client, pc>>
         [] v = "False" ->
              UNCHANGED <<shown, out, first, fmt, client, pc>>
         [] v = "KeyError" ->
              /\ Raise(out, first)
              /\ UNCHANGED shown
    /\ UNCHANGED <<flags, matcher, supplied, cur>>

\* a Pull that drops a record already shown
Pull_dedup(r) ==
    PullWith(r, IF In(r, shown) THEN "False" ELSE MatcherCall(matcher, r))

\* lines 322-324: the iterator yields r
Pull(r) == PullWith(r, MatcherCall(matcher, r))

\* the stream of the current owner ends and chain.from_iterable goes on to
\* the next owner's
NextStream ==
    /\ pc = "loop"
    /\ cur < NStreams
    /\ fetched' = fetched \cup {Request(cur)}
    /\ cur' = cur + 1
    /\ UNCHANGED <<flags, pc, matcher, supplied, client, yielded, shown, out,
                   first, fmt, repo, verdict>>

\* the last stream ends: the loop is over, fmt.__exit__(None, None, None) and
\* the client's __exit__ run
Finish ==
    /\ pc = "loop"
    /\ cur = NStreams
    /\ fetched' = fetched \cup {Request(cur)}
    /\ out' = Exit(formatter, out, first, FALSE)
    /\ fmt' = "exited"
    /\ client' = "closed"
    /\ pc' = "done"
    /\ UNCHANGED <<flags, matcher, supplied, cur, yielded, shown, first, repo,
                   verdict>>

\* the request for the next page fails: the exception leaves the loop
Fault ==
    /\ pc = "loop"
    /\ fetched' = fetched \cup {Request(cur)}
    /\ Raise(out, first)
    /\ UNCHANGED <<flags, matcher, supplied, cur, yielded, shown, repo, verdict>>

Next ==
    \/ UsageFault
    \/ TokenFault
    \/ Begin
    \/ \E r \in Repos : Pull(r)
    \/ NextStream
    \/ Finish
    \/ Fault

Spec == Init /\ [][Next]_vars

----------------------------------------------------------------------------
(* The Matcher class used directly: add() any filters, then call it *)

Keys == {"archived", "language", "topics"}

\* records with any of the keys the filters read missing
AllRepos ==
    { [x \in (DOMAIN Repo(TRUE, TRUE, None, << >>)) \ K |-> Repo(a, f, l, t)[x]] :
        a \in BOOLEAN, f \in BOOLEAN,
        l \in {None, Some(Go), Some(<< "G" >>)},
        t \in {<< >>, << <<"A">> >>, << <<"a">>, <<"b">> >>},
        K \in SUBSET Keys }

\* values given to -L and -T
LanguageArgs == { << "g", "o" >>, << "G", "O" >>, << "g" >> }
TopicArgs == { << "a" >>, << "B" >>, << "c" >> }

MatcherInit ==
    /\ owner = << >>
    /\ formatter = "None"
    /\ archive_filter = "None"
    /\ fork_filter = "None"
    /\ language = None
    /\ topic = << >>
    /\ no_topics = FALSE
    /\ visibility = None
    /\ affiliation = None
    /\ pc = "direct"
    /\ matcher = << >>
    /\ supplied = << >>
    /\ client = "none"
    /\ cur = 0
    /\ fetched = {}
    /\ yielded = << >>
    /\ shown = << >>
    /\ out = << >>
    /\ first = TRUE
    /\ fmt = "none"
    /\ repo \in { Some(r) : r \in AllRepos }
    /\ verdict = "none"

\* Matcher.add(rf), rf built from arg
Add(rf, arg) ==
    /\ pc = "direct"
    /\ verdict = "none"
    /\ Len(matcher) < MaxFilters
    /\ matcher' = Append(matcher, rf)
    /\ supplied' = Append(supplied, arg)
    /\ UNCHANGED <<flags, pc, client, cur, fetched, yielded, shown, out, first,
                   fmt, repo, verdict>>

AddNull == Add(null_filter, None)

AddField ==
    \E fv \in { <<"archived", FALSE>>, <<"archived", TRUE>>, <<"fork", FALSE>>,
                <<"fork", TRUE>>, <<"topics", << >> >> } :
        Add(field_filter(fv[1], fv[2]), None)

AddLanguage == \E v \in LanguageArgs : Add(language_filter(v), Some(v))

AddTopic == \E t \in TopicArgs : Add(topic_filter(t), Some(t))

\* Matcher.__call__(r)
CallMatcher ==
    /\ pc = "direct"
    /\ verdict = "none"
    /\ verdict' = MatcherCall(matcher, repo[1])
    /\ UNCHANGED <<flags, pc, matcher, supplied, client, cur, fetched, yielded,
                   shown, out, first, fmt, repo>>

MatcherNext ==
    \/ AddNull
    \/ AddField
    \/ AddLanguage
    \/ AddTopic
    \/ CallMatcher

MatcherSpec == MatcherInit /\ [][MatcherNext]_vars

----------------------------------------------------------------------------
(* What the properties are stated with *)

Range(xs) == { xs[i] : i \in 1..Len(xs) }

IsPrefix(xs, ys) ==
    /\ Len(xs) <= Len(ys)
    /\ \A i \in 1..Len(xs) : xs[i] = ys[i]

\* c and d are the same letter, whatever their case
SameLetter(c, d) ==
    \/ c = d
    \/ \E k \in 1..Len(UpperCase) : {c, d} = {UpperCase[k], LowerCase[k]}

\* s and t are equal ignoring letter case
SameIgnoringCase(s, t) ==
    /\ Len(s) = Len(t)
    /\ \A i \in 1..Len(s) : SameLetter(s[i], t[i])

\* the records of yielded, in order
YieldedRepos == [i \in 1..Len(yielded) |-> yielded[i].repo]

RECURSIVE Accepted(_, _)
\* the records of rs the Matcher built from fs accepts, in order
Accepted(rs, fs) ==
    IF rs = << >> THEN << >>
    ELSE LET rest == Accepted(SubSeq(rs, 1, Len(rs) - 1), fs)
             r == rs[Len(rs)]
         IN IF MatcherCall(fs, r) = "True" THEN Append(rest, r) ELSE rest

\* the key a filter reads, if any
KeysRead(rf) ==
    CASE rf.kind = "null" -> {}
      [] rf.kind = "field" -> {rf.field}
      [] rf.kind = "language" -> {"language"}
      [] rf.kind = "topic" -> {"topics"}

\* r lacks a key some filter of fs reads
LacksKeyRead(fs, r) ==
    \E k \in 1..Len(fs) : ~(KeysRead(fs[k]) \subseteq DOMAIN r)

\* r lacks a key read by a filter of fs that every earlier filter lets it reach
ReachesMissingKey(fs, r) ==
    \E k \in 1..Len(fs) :
        /\ ~(KeysRead(fs[k]) \subseteq DOMAIN r)
        /\ \A j \in 1..(k - 1) :
              /\ KeysRead(fs[j]) \subseteq DOMAIN r
              /\ Call(fs[j], r) = "True"

\* one record as the array formatter prints it
Object(r) ==
    [kind |-> "json", text |-> "", repo |-> Some(r), indent |-> 4, margin |-> 4]

RECURSIVE Objects(_)
\* the records of rs (not empty) as objects, "," and a newline between two
Objects(rs) ==
    IF Len(rs) = 1 THEN << Object(rs[1]) >>
    ELSE Objects(SubSeq(rs, 1, Len(rs) - 1))
         \o << Lit(","), Lit("\n"), Object(rs[Len(rs)]) >>

\* the permutations of 1..n
Perms(n) ==
    { p \in [1..n -> 1..n] : \A i, j \in 1..n : p[i] = p[j] => i = j }

Permuted(fs, p) == [i \in 1..Len(fs) |-> fs[p[i]]]

DefaultFlags == archive_filter = "None" /\ fork_filter = "None"

IsArray == formatter = "ArrayFormatter"

----------------------------------------------------------------------------
(* Properties *)

\* C1: with default flags (no -A, --archived-only, -F, --forks-only) and
\* well-formed records, the set of records passed to show is exactly the
\* yielded records with archived == false and fork == false whose language is
\* the one given with -L (ignoring case), that the filter of each -T accepts
\* and whose topics are empty under --no-topics.
C1_DefaultExclusion ==
    (DefaultFlags /\ pc \in {"loop", "done", "faulted"}
       /\ \A r \in Range(YieldedRepos) : r \in WellFormed)
    => Range(shown) =
         { r \in Range(YieldedRepos) :
             /\ r["archived"] = FALSE
             /\ r["fork"] = FALSE
             /\ language # None =>
                   /\ r["language"] # None
                   /\ SameIgnoringCase(r["language"][1], language[1])
             /\ \A i \in 1..Len(topic) : Call(topic_filter(topic[i]), r) = "True"
             /\ no_topics => r["topics"] = << >> }

\* C1 witness: default flags with -L and -T; one of two yielded records is
\* archived and dropped, the other is shown.
C1_Witness ==
    /\ DefaultFlags /\ language # None /\ topic # << >> /\ pc = "done"
    /\ Len(yielded) = 2 /\ Len(shown) = 1
    /\ \E i \in 1..2 : yielded[i].repo \in WellFormed /\ yielded[i].repo["archived"]
    /\ \A i \in 1..2 : yielded[i].repo \in WellFormed

\* C2: the array formatter, after a run that ends by exhaustion with N records
\* shown, has printed "[]" when N = 0, and otherwise "[", a newline, the N
\* objects indented by 4 with "," and a newline between two of them, a newline
\* and "]" (print ends the line of the "]").
C2_ArrayClosed ==
    (IsArray /\ pc = "done")
    => out = (IF shown = << >>
              THEN << Lit("["), Lit("]"), Lit("\n") >>
              ELSE << Lit("["), Lit("\n") >> \o Objects(shown)
                   \o << Lit("\n"), Lit("]"), Lit("\n") >>)

\* C2 witness: an array run that ended normally with two records shown.
C2_Witness == IsArray /\ pc = "done" /\ Len(shown) = 2

\* C3: the array formatter, after a fault left the loop with N records shown,
\* has printed "[" and the N objects with N-1 separators and nothing after the
\* last object; no "]" was printed; its __exit__ has run.
C3_ArrayFaulted ==
    (IsArray /\ pc = "faulted")
    => /\ out = << Lit("[") >>
                \o (IF shown = << >> THEN << >>
                    ELSE << Lit("\n") >> \o Objects(shown))
       /\ Lit("]") \notin Range(out)
       /\ fmt = "exited_exc"

\* C3 witness: an array run that a fault ended after two records were shown.
C3_Witness == IsArray /\ pc = "faulted" /\ Len(shown) = 2

\* C4: a visibility option or --affiliation with an OWNER ends the run with a
\* usage fault: no request is made, the client is not acquired, the formatter
\* is not entered and nothing is printed.
C4_UsageFault ==
    ((visibility # None \/ affiliation # None) /\ owner # << >>)
    => /\ pc \in {"start", "usage_error"}
       /\ fetched = {}
       /\ client = "none"
       /\ fmt = "none"
       /\ out = << >>

\* C4 witness: --affiliation with an OWNER and --array has ended in the usage
\* fault.
C4_Witness ==
    /\ pc = "usage_error" /\ IsArray
    /\ affiliation # None /\ visibility = None /\ owner # << >>

\* C5: a Matcher of topic filters accepts a record iff, for every topic given,
\* some element of the record's topics equals it ignoring letter case.
C5_TopicIgnoringCase ==
    (/\ pc = "direct" /\ verdict # "none" /\ matcher # << >>
     /\ \A i \in 1..Len(matcher) : matcher[i].kind = "topic"
     /\ "topics" \in DOMAIN repo[1])
    => (verdict = "True"
        <=> \A i \in 1..Len(matcher) :
              \E e \in Range(repo[1]["topics"]) :
                  SameIgnoringCase(e, supplied[i][1]))

\* C6: the language filter built for v accepts a record iff the record's
\* language is not null and equals v ignoring letter case.
C6_LanguageIgnoringCase ==
    (/\ pc = "direct" /\ verdict # "none" /\ Len(matcher) = 1
     /\ matcher[1].kind = "language"
     /\ "language" \in DOMAIN repo[1])
    => (verdict = "True"
        <=> /\ repo[1]["language"] # None
            /\ SameIgnoringCase(repo[1]["language"][1], supplied[1][1]))

\* C6 witness: a language filter has accepted a record whose language differs
\* from the value given in letter case only.
C6_Witness ==
    /\ pc = "direct" /\ verdict = "True" /\ Len(matcher) = 1
    /\ matcher[1].kind = "language"
    /\ repo[1]["language"] # Some(supplied[1][1])

\* C7: at every point of a run the records shown are the accepted ones among
\* the records yielded so far, in yield order and with repetitions kept; the
\* streams are read in command-line order, no stream after the current one has
\* been requested, and no step takes back a yielded record, a shown record or
\* printed output, so what was shown before a fault stays.
C7_Streaming ==
    /\ [](/\ shown = Accepted(YieldedRepos, matcher)
          /\ \A i, j \in 1..Len(yielded) :
                i <= j => yielded[i].stream <= yielded[j].stream
          /\ \A i \in 1..Len(yielded) : yielded[i].stream <= cur
          /\ \A q \in fetched : q.stream <= cur)
    /\ [][/\ IsPrefix(yielded, yielded')
          /\ IsPrefix(shown, shown')
          /\ IsPrefix(out, out')
          /\ cur' # cur => (cur' = cur + 1 /\ yielded' = yielded
                            /\ \A q \in fetched' : q.stream <= cur)]_vars

\* C7 witness: the same record came from the first owner and from the second,
\* both were shown, and then a fault ended the run while the second was read.
C7_Witness ==
    /\ pc = "faulted" /\ cur = 2 /\ Len(yielded) = 2 /\ Len(shown) = 2
    /\ yielded[1].stream = 1 /\ yielded[2].stream = 2
    /\ yielded[1].repo = yielded[2].repo
    /\ verdict = "True"

\* C9 as stated: a yielded record that lacks a key read by a filter of the
\* Matcher is the last record of the run, and the run has ended in a fault.
C9_MissingKeyAlwaysFatal ==
    \A i \in 1..Len(yielded) :
        LacksKeyRead(matcher, yielded[i].repo)
        => (pc = "faulted" /\ i = Len(yielded))

\* C9 amended: a yielded record that lacks a key read by a filter which every
\* earlier filter of the Matcher lets it reach raises KeyError: it is the last
\* record of the run, it is not shown and the run has ended in a fault. The
\* Matcher raises KeyError for no other record.
C9_MissingKeyReached ==
    /\ \A i \in 1..Len(yielded) :
          ReachesMissingKey(matcher, yielded[i].repo)
          => /\ pc = "faulted" /\ i = Len(yielded)
             /\ verdict = "KeyError"
             /\ Len(shown) = Len(Accepted(SubSeq(YieldedRepos, 1, i - 1), matcher))
    /\ (verdict = "KeyError" /\ pc # "direct")
       => ReachesMissingKey(matcher, yielded[Len(yielded)].repo)

\* C9 witness: with -L, a record without "language" that is neither archived
\* nor a fork has ended the run in a fault.
C9_Witness ==
    /\ pc = "faulted" /\ verdict = "KeyError" /\ DefaultFlags /\ language # None
    /\ "language" \notin DOMAIN repo[1]

\* C10 as stated: a Matcher gives the same outcome, boolean or fault, whatever
\* the order its filters were added in.
C10_AnyOrderSameOutcome ==
    (pc = "direct" /\ verdict # "none")
    => \A p \in Perms(Len(matcher)) :
          MatcherCall(Permuted(matcher, p), repo[1]) = verdict

\* C10 amended: for a record that carries every key the filters read, a Matcher
\* gives the same boolean whatever the order its filters were added in; for
\* any record, if one order gives True then every order gives True.
C10_AnyOrderSameBoolean ==
    (pc = "direct" /\ verdict # "none")
    => \A p \in Perms(Len(matcher)) :
          LET other == MatcherCall(Permuted(matcher, p), repo[1])
          IN /\ ~LacksKeyRead(matcher, repo[1]) => other = verdict
             /\ verdict = "True" <=> other = "True"

\* C10 witness: a Matcher of two different filters has rejected a record that
\* carries every key they read.
C10_Witness ==
    /\ pc = "direct" /\ verdict = "False" /\ Len(matcher) = 2
    /\ matcher[1].kind # matcher[2].kind
    /\ ~LacksKeyRead(matcher, repo[1])
    /\ Call(matcher[1], repo[1]) # Call(matcher[2], repo[1])

====
